---- MODULE Spec2Model ----
(***************************************************************************)
(* Quota-aware multi-credential dispatcher of the YouTube Data Fetcher     *)
(* API: the credential ledger kept by RedisManager (redis_manager.py) and  *)
(* the retry loop of make_youtube_api_request (youtube_api.py).            *)
(*                                                                         *)
(* The ledger is one entry per API key index: quota used, request count    *)
(* and the last reset.  In durable mode (connected = TRUE) the entries are *)
(* the Redis keys quota:{i}, requests:{i}, last_reset_date:{i} and         *)
(* current_key_index; in fallback mode they are the in-process fields      *)
(* quota_usage, request_counts, last_reset_times and current_key_index.    *)
(* Only one of the two is live in a process, so the model keeps one copy   *)
(* of the counters and of the index.                                       *)
(*                                                                         *)
(* Time is counted in ticks, TicksPerDay of them per Pacific-Time day.     *)
(***************************************************************************)
EXTENDS Integers, Sequences, FiniteSets, TLC

\* ---------------------------------------------------------------- bounds
MaxKeys == 2          \* len(API_KEYS) ranges over 1..MaxKeys
MaxTime == 3          \* the clock stops ticking here
TicksPerDay == 2      \* resolution of the clock
MaxDispatches == 1    \* dispatches started in one behaviour
MaxOps == 2           \* direct ledger calls in one behaviour (SpecLedger)
MaxConcCalls == 3     \* upstream answers in one behaviour (SpecConc)
MaxFailures == 1      \* store commands failing in one method call, short of all

\* ----------------------------------------------------- program constants
QUOTA_LIMIT == 10000
max_retries == 3
SearchCost == 100
DefaultCost == 1
FallbackQuotaPct == 90
FallbackRequestThreshold == 1000
ConnectMaxRetries == 15

\* random.uniform(0.75, 0.85) and random.randint(800, 1200), as <<percent,
\* requests>>.  The rotation test is monotone in both thresholds, so the
\* lowest pair and the highest pair give every decision a draw can produce.
DurableThresholds == {<<75, 800>>, <<85, 1200>>}

Procs == {1, 2}

VARIABLES
    constructed,        \* RedisManager.__init__ has returned
    retries,            \* failed attempts of _connect_with_retry
    connected,          \* RedisManager.connected: durable (TRUE) or fallback
    nkeys,              \* len(API_KEYS)
    now,                \* the clock, in ticks
    current_key_index,  \* the active index
    quota_usage,        \* quota:{i} / self.quota_usage[i]
    request_counts,     \* requests:{i} / self.request_counts[i]
    last_reset_date,    \* last_reset_date:{i}, a PT date (durable mode)
    last_reset_times,   \* self.last_reset_times[i], a time (fallback mode)
    pc,                 \* position of each dispatch
    url,                \* the url argument of each dispatch
    retry_count,        \* local retry_count
    key_index,          \* local key_index of the current attempt
    loaded,             \* the value the += in progress read (fallback mode)
    outcome,            \* how the dispatch ended
    calls,              \* history: upstream HTTP calls issued by the dispatch
    last,               \* history: the answer to the last attempt
    answers,            \* history: the <<key index, answer>> pairs of the attempts so far
    before,             \* history: the counters and index before the last key read
    ndisp,              \* dispatches each caller started so far
    zeroed,             \* history: the PT dates on which a reset zeroed index i
    applied,            \* history: sum of the costs incremented on i since its last reset
    napplied,           \* history: number of increments on i since its last reset
    forced,             \* history: i was marked exhausted since its last reset
    op,                 \* the last direct ledger call, what it returned, and
                        \* the store commands that failed in it
    nops                \* direct ledger calls so far

bootVars == <<constructed, retries>>
ledgerVars == <<current_key_index, quota_usage, request_counts,
                last_reset_date, last_reset_times>>
historyVars == <<zeroed, applied, napplied, forced>>
procVars == <<pc, url, retry_count, key_index, loaded, outcome, calls, last,
             answers, before>>
vars == <<bootVars, connected, nkeys, now, current_key_index, quota_usage,
          request_counts, last_reset_date, last_reset_times, pc, url,
          retry_count, key_index, loaded, outcome, calls, last, answers,
          before, ndisp, zeroed,
          applied, napplied, forced, op, nops>>

Keys == 0 .. (nkeys - 1)

\* ------------------------------------------------------------------ time
\* The process is constructed part-way through a PT day.
StartTime == 1

\* _get_current_pt_date: the calendar date of the clock in the fixed zone.
PtDate(t) == t \div TicksPerDay

\* The value _safe_redis_get gives for a date it could not read (None).
NoDate == -1

\* _is_new_pt_day: a missing date counts as a new day.
IsNewPtDay(last_reset, t) ==
    IF last_reset = NoDate THEN TRUE ELSE last_reset # PtDate(t)

\* (current_time - last_reset_times[i]).days: whole days elapsed.
ElapsedDays(t, since) == (t - since) \div TicksPerDay

\* ------------------------------------------------------------ the ledger
\* The ledger as one value, so that a handler can thread it through the
\* manager methods it calls.  The history fields zeroed and forced record
\* what the methods did; no method reads them.
Zeroed(L, i, t) ==
    [L EXCEPT !.quota[i] = 0, !.requests[i] = 0,
              !.zeroed[i] = Append(@, PtDate(t)), !.forced[i] = FALSE]

Ledger ==
    [idx |-> current_key_index, quota |-> quota_usage,
     requests |-> request_counts, rdate |-> last_reset_date,
     rtimes |-> last_reset_times, zeroed |-> zeroed, forced |-> forced]

SetLedger(L) ==
    /\ current_key_index' = L.idx
    /\ quota_usage' = L.quota
    /\ request_counts' = L.requests
    /\ last_reset_date' = L.rdate
    /\ last_reset_times' = L.rtimes
    /\ zeroed' = L.zeroed
    /\ forced' = L.forced

\* The observer of the ledger: after a step that left the ledger as L and made
\* the increments incs (pairs <<index, cost>>, none or one), the sum and the
\* number of the increments of each index since its last reset.
Observed(L, incs) ==
    /\ applied' = [j \in Keys |->
                      (IF L.zeroed[j] # zeroed[j] THEN 0 ELSE applied[j])
                      + (IF \E c \in incs : c[1] = j
                         THEN (CHOOSE c \in incs : c[1] = j)[2] ELSE 0)]
    /\ napplied' = [j \in Keys |->
                      (IF L.zeroed[j] # zeroed[j] THEN 0 ELSE napplied[j])
                      + (IF \E c \in incs : c[1] = j THEN 1 ELSE 0)]

\* A step that makes L the ledger.
Becomes(L, incs) == SetLedger(L) /\ Observed(L, incs)

\* Faulty variant: the counters are zeroed but today's date is not stamped.
ResetWithoutStamp(L, i, t) ==
    IF IsNewPtDay(L.rdate[i], t) THEN Zeroed(L, i, t) ELSE L

\* _reset_quota_if_needed (durable): zero both counters and stamp today when
\* the stored date is not today's PT date.
ResetQuotaIfNeeded(L, i, t) ==
    IF IsNewPtDay(L.rdate[i], t)
    THEN [Zeroed(L, i, t) EXCEPT !.rdate[i] = PtDate(t)]
    ELSE L

\* The reset at the head of increment_usage in fallback mode: at least one
\* whole day elapsed since the last reset of this index.
FallbackReset(L, i, t) ==
    IF ElapsedDays(t, L.rtimes[i]) >= 1
    THEN [Zeroed(L, i, t) EXCEPT !.rtimes[i] = t]
    ELSE L

\* The scan of rotate_key: from next_index, skip keys at or over the limit,
\* at most len(API_KEYS) times.
RECURSIVE ScanNext(_, _, _, _)
ScanNext(quota, n, next_index, attempts) ==
    IF attempts < n /\ quota[next_index] >= QUOTA_LIMIT
    THEN ScanNext(quota, n, (next_index + 1) % n, attempts + 1)
    ELSE next_index

\* Faulty variant: the index moves on by one without the scan.
RotateWithoutScan(L, n) == [L EXCEPT !.idx = (L.idx + 1) % n]

\* Faulty variant: the scan starts at the current index, not after it.
RotateFromCurrent(L, n) == [L EXCEPT !.idx = ScanNext(L.quota, n, L.idx, 0)]

\* Faulty variant: the index is written back only when the scan found a key
\* with quota left.
RotateOnlyToViable(L, n) ==
    IF \E i \in 0 .. (n - 1) : L.quota[i] < QUOTA_LIMIT
    THEN [L EXCEPT !.idx = ScanNext(L.quota, n, (L.idx + 1) % n, 0)]
    ELSE L

\* rotate_key: the next index after the current one with quota left; the
\* index is written back whatever the scan found.  Both modes run the same
\* scan, on the store or on the in-process fields.
RotateKey(L, n) ==
    [L EXCEPT !.idx = ScanNext(L.quota, n, (L.idx + 1) % n, 0)]

\* Faulty variant: the key is marked but the index is not rotated.
MarkWithoutRotation(L, n, i) ==
    [L EXCEPT !.quota[i] = QUOTA_LIMIT, !.forced[i] = TRUE]

\* Faulty variant: a quota already over the limit is left as it is.
MarkKeepsOverrun(L, n, i) ==
    RotateKey([L EXCEPT
                 !.quota[i] = IF @ > QUOTA_LIMIT THEN @ ELSE QUOTA_LIMIT,
                 !.forced[i] = TRUE], n)

\* mark_key_quota_exceeded: force the quota of the key to the limit, rotate.
MarkKeyQuotaExceeded(L, n, i) ==
    RotateKey([L EXCEPT !.quota[i] = QUOTA_LIMIT, !.forced[i] = TRUE], n)

\* are_all_keys_exhausted: reads the counters as they stand.
AreAllKeysExhausted(L, n) ==
    \A i \in 0 .. (n - 1) : L.quota[i] >= QUOTA_LIMIT

\* Faulty variant: the rotation test is strict.
OverThresholdStrict(q, r, pct, rthr) ==
    \/ q * 100 > QUOTA_LIMIT * pct
    \/ r > rthr

\* The rotation test of increment_usage, thresholds given.
OverThreshold(q, r, pct, rthr) ==
    \/ q * 100 >= QUOTA_LIMIT * pct
    \/ r >= rthr

\* Faulty variant: the request is counted, its cost is not added.
AddRequestOnly(L, i, cost) == [L EXCEPT !.requests[i] = @ + 1]

\* The two counter updates of increment_usage.
AddUsage(L, i, cost) ==
    [L EXCEPT !.quota[i] = @ + cost, !.requests[i] = @ + 1]

\* increment_usage with the thresholds of this call: reset check, add the cost
\* and one request, rotate when over a threshold.  The ledger afterwards.
IncrementUsage(L, n, durable, i, cost, t, pct, rthr) ==
    LET R == IF durable THEN ResetQuotaIfNeeded(L, i, t)
                        ELSE FallbackReset(L, i, t)
        A == AddUsage(R, i, cost)
    IN  IF OverThreshold(A.quota[i], A.requests[i], pct, rthr)
        THEN RotateKey(A, n)
        ELSE A

\* What increment_usage returns: new_quota (durable), or quota_usage[key_index]
\* read after the rotation (fallback).
IncrementUsageResult(L, n, durable, i, cost, t, pct, rthr) ==
    IF durable
    THEN ResetQuotaIfNeeded(L, i, t).quota[i] + cost
    ELSE IncrementUsage(L, n, FALSE, i, cost, t, pct, rthr).quota[i]

\* The thresholds increment_usage can be running with, as <<pct, requests>>.
Thresholds(durable) ==
    IF durable THEN DurableThresholds
    ELSE {<<FallbackQuotaPct, FallbackRequestThreshold>>}

\* get_current_api_key, the index it returns: the stored index, 0 in its
\* place when it is at or over len(API_KEYS) (line 154); a negative one passes
\* the test and API_KEYS[index] counts it from the end of the list, raising
\* IndexError (caught at line 162, giving index 0) only below -len(API_KEYS).
CurrentIndex(L, n, durable) ==
    IF durable /\ (L.idx >= n \/ L.idx < -n) THEN 0 ELSE L.idx

\* get_current_api_key, the ledger after: the index repaired by line 156 when
\* it was at or over len(API_KEYS), then the reset check of the index; for a
\* negative index the reset check works on keys of the store that belong to
\* no entry, and nothing is written to the index.
GetCurrentApiKey(L, n, durable, t) ==
    IF durable
    THEN IF L.idx >= n THEN ResetQuotaIfNeeded([L EXCEPT !.idx = 0], 0, t)
         ELSE IF L.idx < 0 THEN L
         ELSE ResetQuotaIfNeeded(L, L.idx, t)
    ELSE L

\* ------------------------------------------------------------ dispatcher
\* The urls the endpoint helpers pass, and one no helper passes; a url is
\* the set of endpoint names that occur in it as substrings.
Urls == {{"search"}, {"videos"}, {"channels"}, {"playlistItems"},
         {"playlists"}, {}}

\* Faulty variant: a search is charged like any other call.
FlatQuotaCost(u) == DefaultCost

\* get_endpoint_quota_cost
get_endpoint_quota_cost(u) ==
    IF "search" \in u THEN SearchCost
    ELSE IF "videos" \in u THEN DefaultCost
    ELSE IF "channels" \in u THEN DefaultCost
    ELSE IF "playlistItems" \in u THEN DefaultCost
    ELSE IF "playlists" \in u THEN DefaultCost
    ELSE DefaultCost


\* The reason carried by a 403 body, and the branch of lines 71-94 it takes.
Reasons == {"quotaExceeded", "dailyLimitExceeded", "keyInvalid",
            "accessNotConfigured", "forbidden", ""}

ClassifyReason(r) ==
    IF r \in {"quotaExceeded", "dailyLimitExceeded"} THEN "quota"
    ELSE IF r \in {"keyInvalid", "accessNotConfigured"} THEN "invalid"
    ELSE "other"

\* ------------------------------------------------------------------ Init
\* Ledger entries a durable store can hold when the process starts: a fresh
\* entry, entries left by earlier traffic (100 a search, 1 any other call)
\* just under a request threshold and just under the limit, and an entry
\* forced to the limit by mark_key_quota_exceeded.
StoredEntries ==
    {[quota |-> 0, requests |-> 0, forced |-> FALSE],
     [quota |-> 999, requests |-> 999, forced |-> FALSE],
     [quota |-> 9950, requests |-> 149, forced |-> FALSE],
     [quota |-> 10000, requests |-> 0, forced |-> TRUE]}

\* The entries of the in-process ledger built by __init__ when Redis is not
\* reachable.
FreshEntries == {[quota |-> 0, requests |-> 0, forced |-> FALSE]}

InitProcs ==
    /\ pc = [p \in Procs |-> "idle"]
    /\ url = [p \in Procs |-> {}]
    /\ retry_count = [p \in Procs |-> 0]
    /\ key_index = [p \in Procs |-> 0]
    /\ loaded = [p \in Procs |-> 0]
    /\ outcome = [p \in Procs |-> "none"]
    /\ calls = [p \in Procs |-> 0]
    /\ last = [p \in Procs |-> "none"]
    /\ answers = [p \in Procs |-> {}]
    /\ before = [p \in Procs |-> <<>>]
    /\ ndisp = [p \in Procs |-> 0]
    /\ op = [name |-> "none", arg |-> 0, cost |-> 0, ret |-> 0, failed |-> {}]
    /\ nops = 0

InitLedger(maxkeys, stored) ==
    /\ constructed = TRUE
    /\ connected \in BOOLEAN
    /\ retries = (IF connected THEN 0 ELSE ConnectMaxRetries)
    /\ nkeys \in 1 .. maxkeys
    /\ now = StartTime
    /\ current_key_index \in (IF connected THEN Keys ELSE {0})
    /\ \E e \in [Keys -> IF connected THEN stored ELSE FreshEntries] :
          /\ quota_usage = [i \in Keys |-> e[i].quota]
          /\ request_counts = [i \in Keys |-> e[i].requests]
          /\ forced = [i \in Keys |-> e[i].forced]
          /\ applied = [i \in Keys |-> IF e[i].forced THEN 0 ELSE e[i].quota]
          /\ napplied = [i \in Keys |-> e[i].requests]
    /\ last_reset_date = [i \in Keys |-> PtDate(now)]
    /\ last_reset_times = [i \in Keys |-> now]
    /\ zeroed = [i \in Keys |-> <<>>]

Init == InitLedger(MaxKeys, StoredEntries) /\ InitProcs

\* ----------------------------------------------------- dispatcher steps
\* Faulty variant: the loop is entered without the check of lines 31-36.
StartWithoutCheck(p) ==
    /\ pc[p] = "idle"
    /\ ndisp[p] < MaxDispatches
    /\ ndisp' = [ndisp EXCEPT ![p] = @ + 1]
    /\ retry_count' = [retry_count EXCEPT ![p] = 0]
    /\ calls' = [calls EXCEPT ![p] = 0]
    /\ last' = [last EXCEPT ![p] = "none"]
    /\ answers' = [answers EXCEPT ![p] = {}]
    /\ outcome' = [outcome EXCEPT ![p] = "none"]
    /\ pc' = [pc EXCEPT ![p] = "loop"]
    /\ UNCHANGED <<bootVars, connected, nkeys, now, ledgerVars, historyVars, key_index,
                   loaded, url, before, op, nops>>

\* make_youtube_api_request, lines 28-36: the check before the loop.  The url
\* argument is read at one place only, where an attempt that got a 200 charges
\* its cost (lines 49 and 64); the model draws it there (Resp200).
Start(p) ==
    /\ pc[p] = "idle"
    /\ ndisp[p] < MaxDispatches
    /\ ndisp' = [ndisp EXCEPT ![p] = @ + 1]
    /\ retry_count' = [retry_count EXCEPT ![p] = 0]
    /\ calls' = [calls EXCEPT ![p] = 0]
    /\ last' = [last EXCEPT ![p] = "none"]
    /\ answers' = [answers EXCEPT ![p] = {}]
    /\ IF AreAllKeysExhausted(Ledger, nkeys)
       THEN /\ outcome' = [outcome EXCEPT ![p] = "all_exhausted"]
            /\ pc' = [pc EXCEPT ![p] = "done"]
       ELSE /\ outcome' = [outcome EXCEPT ![p] = "none"]
            /\ pc' = [pc EXCEPT ![p] = "loop"]
    /\ UNCHANGED <<bootVars, connected, nkeys, now, ledgerVars, historyVars, key_index,
                   loaded, url, before, op, nops>>

\* Lines 38-53: the loop guard holds, the current key is read.
GetKey(p) ==
    /\ pc[p] = "loop"
    /\ retry_count[p] < max_retries
    /\ Becomes(GetCurrentApiKey(Ledger, nkeys, connected, now), {})
    /\ key_index' = [key_index EXCEPT ![p] = CurrentIndex(Ledger, nkeys, connected)]
    /\ before' = [before EXCEPT ![p] = <<quota_usage, request_counts,
                                         current_key_index>>]
    /\ pc' = [pc EXCEPT ![p] = "request"]
    /\ UNCHANGED <<bootVars, connected, nkeys, now, url, retry_count, loaded, outcome,
                   calls, last, answers, ndisp, op, nops>>

\* Faulty variant: the exit of the loop reports the all-exhausted outcome.
RetriesExhaustedAsAllExhausted(p) ==
    /\ pc[p] = "loop"
    /\ retry_count[p] >= max_retries
    /\ outcome' = [outcome EXCEPT ![p] = "all_exhausted"]
    /\ pc' = [pc EXCEPT ![p] = "done"]
    /\ UNCHANGED <<bootVars, connected, nkeys, now, ledgerVars, historyVars, url,
                   retry_count, key_index, loaded, calls, last, answers,
                   before, ndisp, op, nops>>

\* Lines 38 and 111: the loop guard fails.
RetriesExhausted(p) ==
    /\ pc[p] = "loop"
    /\ retry_count[p] >= max_retries
    /\ outcome' = [outcome EXCEPT ![p] = "retries_exhausted"]
    /\ pc' = [pc EXCEPT ![p] = "done"]
    /\ UNCHANGED <<bootVars, connected, nkeys, now, ledgerVars, historyVars, url,
                   retry_count, key_index, loaded, calls, last, answers,
                   before, ndisp, op, nops>>

\* What every answer to requests.get does to the dispatch.
Answered(p, kind) ==
    /\ pc[p] = "request"
    /\ calls' = [calls EXCEPT ![p] = @ + 1]
    /\ last' = [last EXCEPT ![p] = kind]
    /\ answers' = [answers EXCEPT ![p] = @ \cup {<<key_index[p], kind>>}]
    /\ UNCHANGED <<bootVars, connected, nkeys, now, key_index, before, ndisp, op, nops>>

\* Leave the loop with an outcome / go round again.
Ends(p, how) ==
    /\ outcome' = [outcome EXCEPT ![p] = how]
    /\ pc' = [pc EXCEPT ![p] = "done"]
    /\ UNCHANGED retry_count

Retries(p) ==
    /\ retry_count' = [retry_count EXCEPT ![p] = @ + 1]
    /\ pc' = [pc EXCEPT ![p] = "loop"]
    /\ UNCHANGED outcome

\* Lines 62-65: status 200; the whole of increment_usage, then the payload.
Resp200(p) ==
    /\ Answered(p, "ok")
    /\ \E u \in Urls, th \in Thresholds(connected) :
          /\ url' = [url EXCEPT ![p] = u]
          /\ Becomes(IncrementUsage(Ledger, nkeys, connected, key_index[p],
                                    get_endpoint_quota_cost(u), now,
                                    th[1], th[2]),
                     {<<key_index[p], get_endpoint_quota_cost(u)>>})
    /\ UNCHANGED loaded
    /\ Ends(p, "payload")

\* Lines 67-83: 403 with a quota reason.
Resp403Quota(p) ==
    /\ Answered(p, "quota")
    /\ \E r \in Reasons : ClassifyReason(r) = "quota"
    /\ LET L == MarkKeyQuotaExceeded(Ledger, nkeys, key_index[p])
       IN  /\ Becomes(L, {})
           /\ UNCHANGED <<url, loaded>>
           /\ IF AreAllKeysExhausted(L, nkeys)
              THEN Ends(p, "all_exhausted")
              ELSE Retries(p)

\* Lines 84-89: 403 with an invalid-key reason.
Resp403Invalid(p) ==
    /\ Answered(p, "invalid")
    /\ \E r \in Reasons : ClassifyReason(r) = "invalid"
    /\ Becomes(MarkKeyQuotaExceeded(Ledger, nkeys, key_index[p]), {})
    /\ UNCHANGED <<url, loaded>>
    /\ Retries(p)

\* Lines 90-94: any other 403.
Resp403Other(p) ==
    /\ Answered(p, "forbidden")
    /\ \E r \in Reasons : ClassifyReason(r) = "other"
    /\ UNCHANGED <<ledgerVars, historyVars, url, loaded>>
    /\ Ends(p, "forbidden")

\* Faulty variant: a failed attempt is retried without being counted.
FailedAttemptUncounted(p, how) ==
    /\ pc' = [pc EXCEPT ![p] = "loop"]
    /\ UNCHANGED <<retry_count, outcome>>

\* A failed attempt of lines 95-109: count it, fail once the budget is spent.
FailedAttempt(p, how) ==
    /\ retry_count' = [retry_count EXCEPT ![p] = @ + 1]
    /\ IF retry_count[p] + 1 >= max_retries
       THEN /\ outcome' = [outcome EXCEPT ![p] = how]
            /\ pc' = [pc EXCEPT ![p] = "done"]
       ELSE /\ pc' = [pc EXCEPT ![p] = "loop"]
            /\ UNCHANGED outcome

\* Lines 95-102: a status that is neither 200 nor 403.
RespOther(p) ==
    /\ Answered(p, "status")
    /\ UNCHANGED <<ledgerVars, historyVars, url, loaded>>
    /\ FailedAttempt(p, "upstream_error")

\* Faulty variant: the attempt is charged before the call, so a transport failure
\* leaves one request counted.
TransportFailureCharged(p) ==
    /\ Answered(p, "transport")
    /\ Becomes(AddUsage(Ledger, key_index[p], DefaultCost), {})
    /\ UNCHANGED <<url, loaded>>
    /\ retry_count' = [retry_count EXCEPT ![p] = @ + 1]
    /\ IF retry_count[p] + 1 >= max_retries
       THEN /\ outcome' = [outcome EXCEPT ![p] = "network_error"]
            /\ pc' = [pc EXCEPT ![p] = "done"]
       ELSE /\ pc' = [pc EXCEPT ![p] = "loop"]
            /\ UNCHANGED outcome

\* Faulty variant: the handler of lines 104-109 counts the retry and always
\* goes round again, leaving the failure to the exit of the loop (line 111).
TransportFailureUnraised(p) ==
    /\ Answered(p, "transport")
    /\ UNCHANGED <<ledgerVars, historyVars, url, loaded>>
    /\ Retries(p)

\* Lines 104-109: requests raised (connection error, timeout).
TransportFailure(p) ==
    /\ Answered(p, "transport")
    /\ UNCHANGED <<ledgerVars, historyVars, url, loaded>>
    /\ FailedAttempt(p, "network_error")

\* The caller has the result; the locals of the call are gone.
Finish(p) ==
    /\ pc[p] = "done"
    /\ pc' = [pc EXCEPT ![p] = "idle"]
    /\ url' = [url EXCEPT ![p] = {}]
    /\ retry_count' = [retry_count EXCEPT ![p] = 0]
    /\ key_index' = [key_index EXCEPT ![p] = 0]
    /\ loaded' = [loaded EXCEPT ![p] = 0]
    /\ outcome' = [outcome EXCEPT ![p] = "none"]
    /\ calls' = [calls EXCEPT ![p] = 0]
    /\ last' = [last EXCEPT ![p] = "none"]
    /\ answers' = [answers EXCEPT ![p] = {}]
    /\ before' = [before EXCEPT ![p] = <<>>]
    /\ UNCHANGED <<bootVars, connected, nkeys, now, ledgerVars, historyVars, ndisp, op,
                   nops>>

\* The clock.
Tick ==
    /\ now < MaxTime
    /\ pc[1] \in {"idle", "request"}
    /\ now' = now + 1
    /\ UNCHANGED <<bootVars, connected, nkeys, ledgerVars, historyVars, procVars, ndisp,
                   op, nops>>

\* One dispatch at a time: the caller of process 1.
Next ==
    \/ Tick
    \/ Start(1)
    \/ GetKey(1)
    \/ RetriesExhausted(1)
    \/ Resp200(1)
    \/ Resp403Quota(1)
    \/ Resp403Invalid(1)
    \/ Resp403Other(1)
    \/ RespOther(1)
    \/ TransportFailure(1)
    \/ Finish(1)

Spec == Init /\ [][Next]_vars


\* ------------------------------------------- the manager called directly
\* The public methods of RedisManager, one call a step, as a test or another
\* module (main.py calls three of them) drives them.
Called(name, arg, cost, ret) ==
    /\ nops < MaxOps
    /\ nops' = nops + 1
    /\ op' = [name |-> name, arg |-> arg, cost |-> cost, ret |-> ret,
              failed |-> {}]
    /\ UNCHANGED <<bootVars, connected, nkeys, now, procVars, ndisp>>

OpIncrementUsage ==
    \E i \in Keys, cost \in {DefaultCost, SearchCost} :
      \E th \in Thresholds(connected) :
        /\ Becomes(IncrementUsage(Ledger, nkeys, connected, i, cost, now,
                                  th[1], th[2]), {<<i, cost>>})
        /\ Called("increment_usage", i, cost,
                  IncrementUsageResult(Ledger, nkeys, connected, i, cost, now,
                                       th[1], th[2]))

OpRotateKey ==
    /\ Becomes(RotateKey(Ledger, nkeys), {})
    /\ Called("rotate_key", 0, 0, RotateKey(Ledger, nkeys).idx)

OpMarkKeyQuotaExceeded ==
    \E i \in Keys :
        /\ Becomes(MarkKeyQuotaExceeded(Ledger, nkeys, i), {})
        /\ Called("mark_key_quota_exceeded", i, 0,
                  MarkKeyQuotaExceeded(Ledger, nkeys, i).idx)

OpGetCurrentApiKey ==
    /\ Becomes(GetCurrentApiKey(Ledger, nkeys, connected, now), {})
    /\ Called("get_current_api_key", 0, 0, CurrentIndex(Ledger, nkeys, connected))

OpAreAllKeysExhausted ==
    /\ UNCHANGED <<ledgerVars, historyVars>>
    /\ Called("are_all_keys_exhausted", 0, 0, AreAllKeysExhausted(Ledger, nkeys))

\* Entries of a durable store for the direct calls: fresh, just under the
\* limit, forced to the limit.
LedgerEntries ==
    {[quota |-> 0, requests |-> 0, forced |-> FALSE],
     [quota |-> 9950, requests |-> 149, forced |-> FALSE],
     [quota |-> 10000, requests |-> 0, forced |-> TRUE]}

InitLedgerCalls == InitLedger(MaxKeys, LedgerEntries) /\ InitProcs

NextLedger ==
    \/ Tick
    \/ OpIncrementUsage
    \/ OpRotateKey
    \/ OpMarkKeyQuotaExceeded
    \/ OpGetCurrentApiKey
    \/ OpAreAllKeysExhausted

SpecLedger == InitLedgerCalls /\ [][NextLedger]_vars


\* ------------------------------------------------ concurrent dispatches
\* The endpoints of main.py are plain functions, which the server runs on
\* worker threads: two dispatches share the one manager.  In durable mode a
\* manager method is one step here.  In fallback mode the counters are fields
\* of the manager and self.quota_usage[key_index] += quota_cost (line 217)
\* reads the field, adds, and writes it back: another thread can run between
\* the read and the write.

\* Lines 62-64 and 207-217, fallback mode: status 200, the reset at the head
\* of increment_usage, and the read of the += .
Resp200Load(p) ==
    /\ ~connected
    /\ Answered(p, "ok")
    /\ \E u \in Urls : url' = [url EXCEPT ![p] = u]
    /\ LET R == FallbackReset(Ledger, key_index[p], now)
       IN  /\ Becomes(R, {})
           /\ loaded' = [loaded EXCEPT ![p] = R.quota[key_index[p]]]
    /\ pc' = [pc EXCEPT ![p] = "adding"]
    /\ UNCHANGED <<retry_count, outcome>>

\* Lines 217-232 and 65, fallback mode: the write of the += , the request
\* counted, the rotation test, the payload returned.
Resp200Store(p) ==
    /\ pc[p] = "adding"
    /\ LET k == key_index[p]
           cost == get_endpoint_quota_cost(url[p])
           A == [Ledger EXCEPT !.quota[k] = loaded[p] + cost,
                               !.requests[k] = @ + 1]
       IN  Becomes(IF OverThreshold(A.quota[k], A.requests[k],
                                    FallbackQuotaPct, FallbackRequestThreshold)
                   THEN RotateKey(A, nkeys) ELSE A,
                   {<<k, cost>>})
    /\ Ends(p, "payload")
    /\ UNCHANGED <<bootVars, connected, nkeys, now, url, key_index, loaded, calls, last,
                   answers, before, ndisp, op, nops>>

\* Entries of a durable store for the concurrent dispatches.
ConcEntries ==
    {[quota |-> 0, requests |-> 0, forced |-> FALSE],
     [quota |-> 9950, requests |-> 149, forced |-> FALSE]}

InitConc == InitLedger(MaxKeys, ConcEntries) /\ InitProcs

\* The upstream has answers left to give.
Answering == calls[1] + calls[2] < MaxConcCalls

NextConc ==
    \E p \in Procs :
        \/ Start(p)
        \/ GetKey(p)
        \/ RetriesExhausted(p)
        \/ Answering /\ connected /\ Resp200(p)
        \/ Answering /\ Resp200Load(p)
        \/ Resp200Store(p)
        \/ Answering /\ Resp403Quota(p)
        \/ Answering /\ Resp403Invalid(p)
        \/ Answering /\ Resp403Other(p)
        \/ Answering /\ RespOther(p)
        \/ Answering /\ TransportFailure(p)
        \/ Finish(p)

SpecConc == InitConc /\ [][NextConc]_vars


\* ------------------------------------------ the rotation-threshold run
\* A run of increment_usage(0, 100) calls on three keys with empty counters
\* and index 0, followed by one dispatch.  In durable mode the run is one in
\* which random.uniform yields 0.8 and random.randint 1000 at every call of
\* the run (a test pins them); in fallback mode the thresholds are the
\* literals of lines 224-225.
PinnedThresholds ==
    IF connected THEN <<80, 1000>>
    ELSE <<FallbackQuotaPct, FallbackRequestThreshold>>

RunIncrement ==
    /\ nops < 85
    /\ pc[1] = "idle"
    /\ ndisp[1] = 0
    /\ Becomes(IncrementUsage(Ledger, nkeys, connected, 0, SearchCost, now,
                              PinnedThresholds[1], PinnedThresholds[2]),
               {<<0, SearchCost>>})
    /\ nops' = nops + 1
    /\ op' = [name |-> "increment_usage", arg |-> 0, cost |-> SearchCost,
              ret |-> IncrementUsageResult(Ledger, nkeys, connected, 0,
                                           SearchCost, now, PinnedThresholds[1],
                                           PinnedThresholds[2]),
              failed |-> {}]
    /\ UNCHANGED <<bootVars, connected, nkeys, now, procVars, ndisp>>

InitRun ==
    /\ InitLedger(3, FreshEntries)
    /\ nkeys = 3
    /\ current_key_index = 0
    /\ InitProcs

NextRun ==
    \/ RunIncrement
    \/ nops = 85 /\ Start(1)
    \/ GetKey(1)
    \/ Resp200(1)
    \/ Finish(1)

SpecRun == InitRun /\ [][NextRun]_vars


\* ------------------------------------------------ the store failing
\* Durable mode after a successful start, with store commands failing.  Each
\* command goes through a _safe_redis_* wrapper (lines 73-111), which catches
\* the error and returns its default.  F is the set of commands that fail in
\* one call of a manager method, named by what they touch.
StoreOps ==
    {"get_index", "set_index", "get_quota", "set_quota", "incr_quota",
     "set_requests", "incr_requests", "get_date", "set_date"}

\* The sets of commands, out of those a method issues, that fail in one call
\* of it: a few of them, or all (the store is away).
Failing(ops) == {F \in SUBSET ops : Cardinality(F) <= MaxFailures} \cup {ops}

\* Faulty variant: a quota that cannot be read counts as exhausted.
StoredQuotaOrLimit(L, i, F) ==
    IF "get_quota" \in F THEN QUOTA_LIMIT ELSE L.quota[i]

\* _safe_redis_get(quota_key, "0"), lines 302 and 353.
StoredQuota(L, i, F) == IF "get_quota" \in F THEN 0 ELSE L.quota[i]

\* _safe_redis_get(current_key_index, "0"), lines 150 and 292.
StoredIndex(L, F) == IF "get_index" \in F THEN 0 ELSE L.idx

\* _safe_redis_get(reset_key), line 193: None when the read fails.
StoredDate(L, i, F) == IF "get_date" \in F THEN NoDate ELSE L.rdate[i]

\* _reset_quota_if_needed with failures: each of the three writes of lines
\* 199-201 happens unless it fails.
ResetQuotaIfNeededF(L, i, t, F) ==
    IF IsNewPtDay(StoredDate(L, i, F), t)
    THEN [L EXCEPT
            !.quota[i] = IF "set_quota" \in F THEN @ ELSE 0,
            !.zeroed[i] = IF "set_quota" \in F THEN @ ELSE Append(@, PtDate(t)),
            !.forced[i] = IF "set_quota" \in F THEN @ ELSE FALSE,
            !.requests[i] = IF "set_requests" \in F THEN @ ELSE 0,
            !.rdate[i] = IF "set_date" \in F THEN @ ELSE PtDate(t)]
    ELSE L

\* rotate_key (durable path) with failures: the index and the quotas as the
\* wrappers give them, the write of line 315 unless it fails.
NextIndexF(L, n, F) ==
    ScanNext([i \in 0 .. (n - 1) |-> StoredQuota(L, i, F)], n,
             (StoredIndex(L, F) + 1) % n, 0)

RotateKeyF(L, n, F) ==
    IF "set_index" \in F THEN L ELSE [L EXCEPT !.idx = NextIndexF(L, n, F)]

\* mark_key_quota_exceeded with failures.
MarkKeyQuotaExceededF(L, n, i, F) ==
    RotateKeyF(IF "set_quota" \in F THEN L
               ELSE [L EXCEPT !.quota[i] = QUOTA_LIMIT, !.forced[i] = TRUE],
               n, F)

\* are_all_keys_exhausted with failures.
AreAllKeysExhaustedF(L, n, F) ==
    \A i \in 0 .. (n - 1) : StoredQuota(L, i, F) >= QUOTA_LIMIT

\* get_current_api_key with failures: the index it returns, the ledger after.
CurrentIndexF(L, n, F) ==
    IF StoredIndex(L, F) >= n THEN 0 ELSE StoredIndex(L, F)

GetCurrentApiKeyF(L, n, t, F) ==
    ResetQuotaIfNeededF(
        IF StoredIndex(L, F) >= n /\ "set_index" \notin F
        THEN [L EXCEPT !.idx = 0] ELSE L,
        CurrentIndexF(L, n, F), t, F)

\* increment_usage with failures: _safe_redis_incrby gives 0 when it fails
\* (lines 94-102); new_quota and new_request_count are what it gave.
NewQuotaF(L, i, cost, t, F) ==
    IF "incr_quota" \in F THEN 0
    ELSE ResetQuotaIfNeededF(L, i, t, F).quota[i] + cost

NewRequestCountF(L, i, t, F) ==
    IF "incr_requests" \in F THEN 0
    ELSE ResetQuotaIfNeededF(L, i, t, F).requests[i] + 1

IncrementUsageF(L, n, i, cost, t, pct, rthr, F) ==
    LET R == ResetQuotaIfNeededF(L, i, t, F)
        A == [R EXCEPT
                !.quota[i] = IF "incr_quota" \in F THEN @ ELSE @ + cost,
                !.requests[i] = IF "incr_requests" \in F THEN @ ELSE @ + 1]
    IN  IF OverThreshold(NewQuotaF(L, i, cost, t, F),
                         NewRequestCountF(L, i, t, F), pct, rthr)
        THEN RotateKeyF(A, n, F)
        ELSE A

\* The increments a call made, for the observer.
IncrementsF(i, cost, F) == IF "incr_quota" \in F THEN {} ELSE {<<i, cost>>}

\* The steps of one dispatch with the store failing.
StartF(p) ==
    /\ pc[p] = "idle"
    /\ ndisp[p] < MaxDispatches
    /\ ndisp' = [ndisp EXCEPT ![p] = @ + 1]
    /\ retry_count' = [retry_count EXCEPT ![p] = 0]
    /\ calls' = [calls EXCEPT ![p] = 0]
    /\ last' = [last EXCEPT ![p] = "none"]
    /\ answers' = [answers EXCEPT ![p] = {}]
    /\ \E F \in Failing({"get_quota"}) :
          IF AreAllKeysExhaustedF(Ledger, nkeys, F)
          THEN /\ outcome' = [outcome EXCEPT ![p] = "all_exhausted"]
               /\ pc' = [pc EXCEPT ![p] = "done"]
          ELSE /\ outcome' = [outcome EXCEPT ![p] = "none"]
               /\ pc' = [pc EXCEPT ![p] = "loop"]
    /\ UNCHANGED <<bootVars, connected, nkeys, now, ledgerVars, historyVars, key_index,
                   loaded, url, before, op, nops>>

GetKeyF(p) ==
    /\ pc[p] = "loop"
    /\ retry_count[p] < max_retries
    /\ \E F \in Failing({"get_index", "get_date", "set_quota", "set_requests",
                          "set_date"}) :
          /\ Becomes(GetCurrentApiKeyF(Ledger, nkeys, now, F), {})
          /\ key_index' = [key_index EXCEPT ![p] = CurrentIndexF(Ledger, nkeys, F)]
    /\ pc' = [pc EXCEPT ![p] = "request"]
    /\ UNCHANGED <<bootVars, connected, nkeys, now, url, retry_count, loaded, outcome,
                   calls, last, answers, before, ndisp, op, nops>>

\* Lines 62-65 with the store failing.  The value increment_usage returns is
\* dropped by the dispatcher; op keeps it, with whether the INCRBY of the
\* quota failed.
Resp200F(p) ==
    /\ pc[p] = "request"
    /\ calls' = [calls EXCEPT ![p] = @ + 1]
    /\ last' = [last EXCEPT ![p] = "ok"]
    /\ answers' = [answers EXCEPT ![p] = @ \cup {<<key_index[p], "ok">>}]
    /\ \E u \in {{"search"}, {"videos"}}, th \in DurableThresholds,
          F \in Failing(StoreOps) :
          /\ url' = [url EXCEPT ![p] = u]
          /\ Becomes(IncrementUsageF(Ledger, nkeys, key_index[p],
                                     get_endpoint_quota_cost(u), now,
                                     th[1], th[2], F),
                     IncrementsF(key_index[p], get_endpoint_quota_cost(u), F))
          /\ op' = [name |-> "increment_usage", arg |-> key_index[p],
                    cost |-> get_endpoint_quota_cost(u),
                    ret |-> NewQuotaF(Ledger, key_index[p],
                                      get_endpoint_quota_cost(u), now, F),
                    failed |-> F \cap {"incr_quota"}]
    /\ Ends(p, "payload")
    /\ UNCHANGED <<bootVars, connected, nkeys, now, key_index, loaded, before, ndisp,
                   nops>>

Resp403QuotaF(p) ==
    /\ Answered(p, "quota")
    /\ \E F \in Failing({"set_quota", "get_index", "get_quota", "set_index"}) :
          LET L == MarkKeyQuotaExceededF(Ledger, nkeys, key_index[p], F)
          IN  /\ Becomes(L, {})
              /\ IF AreAllKeysExhaustedF(L, nkeys, F)
                 THEN Ends(p, "all_exhausted")
                 ELSE Retries(p)
    /\ UNCHANGED <<url, loaded>>

Resp403InvalidF(p) ==
    /\ Answered(p, "invalid")
    /\ \E F \in Failing({"set_quota", "get_index", "get_quota", "set_index"}) :
          Becomes(MarkKeyQuotaExceededF(Ledger, nkeys, key_index[p], F), {})
    /\ UNCHANGED <<url, loaded>>
    /\ Retries(p)

\* Entries of the store for the runs with failures: one with quota left, one
\* forced to the limit (a failed read of the date empties an entry).
FailEntries ==
    {[quota |-> 9950, requests |-> 149, forced |-> FALSE],
     [quota |-> 10000, requests |-> 0, forced |-> TRUE]}

InitFail == InitLedger(MaxKeys, FailEntries) /\ connected /\ InitProcs

NextFail ==
    \/ StartF(1)
    \/ GetKeyF(1)
    \/ RetriesExhausted(1)
    \/ Resp200F(1)
    \/ Resp403QuotaF(1)
    \/ Resp403InvalidF(1)
    \/ Resp403Other(1)
    \/ RespOther(1)
    \/ TransportFailure(1)

SpecFail == InitFail /\ [][NextFail]_vars


\* ------------------------------------------------------- construction
\* RedisManager.__init__ (lines 25-39) and _connect_with_retry (lines 41-71),
\* followed by direct calls of the manager.  Before __init__ returns the
\* ledger variables hold what the store holds; the fallback branch replaces
\* them by the in-process fields of lines 36-39.

\* Faulty variant: the fields of the fallback are left as the store had them.
FallbackFieldsFromStore ==
    /\ UNCHANGED <<ledgerVars, historyVars>>

\* Lines 32-39: the except branch of __init__.
FallbackFields ==
    /\ current_key_index' = 0
    /\ quota_usage' = [i \in Keys |-> 0]
    /\ request_counts' = [i \in Keys |-> 0]
    /\ last_reset_times' = [i \in Keys |-> now]
    /\ last_reset_date' = [i \in Keys |-> PtDate(now)]
    /\ zeroed' = [i \in Keys |-> <<>>]
    /\ applied' = [i \in Keys |-> 0]
    /\ napplied' = [i \in Keys |-> 0]
    /\ forced' = [i \in Keys |-> FALSE]

\* Lines 65-68: ping raised ConnectionError or TimeoutError.
ConnectFails ==
    /\ ~constructed
    /\ retries < ConnectMaxRetries
    /\ retries' = retries + 1
    /\ UNCHANGED <<constructed, connected, nkeys, now, ledgerVars, historyVars,
                   procVars, ndisp, op, nops>>

\* Lines 60-64 and 30-31: ping answered; _initialize_keys leaves the entries
\* the store has and connected is set.
ConnectSucceeds ==
    /\ ~constructed
    /\ retries < ConnectMaxRetries
    /\ connected' = TRUE
    /\ constructed' = TRUE
    /\ UNCHANGED <<retries, nkeys, now, ledgerVars, historyVars, procVars,
                   ndisp, op, nops>>

\* An attempt raised something line 65 does not catch, or _initialize_keys
\* raised: __init__ catches it at line 32.
ConnectRaises ==
    /\ ~constructed
    /\ retries < ConnectMaxRetries
    /\ constructed' = TRUE
    /\ FallbackFields
    /\ UNCHANGED <<retries, connected, nkeys, now, procVars, ndisp, op, nops>>

\* Lines 44 and 70-71: the attempts are spent.
ConnectGivesUp ==
    /\ ~constructed
    /\ retries >= ConnectMaxRetries
    /\ constructed' = TRUE
    /\ FallbackFields
    /\ UNCHANGED <<retries, connected, nkeys, now, procVars, ndisp, op, nops>>

\* What the store holds when the process starts.
BootEntries == {[quota |-> 9950, requests |-> 149, forced |-> FALSE]}

InitBoot ==
    /\ constructed = FALSE
    /\ retries = 0
    /\ connected = FALSE
    /\ nkeys \in 1 .. MaxKeys
    /\ now = StartTime
    /\ current_key_index \in Keys
    /\ \E e \in [Keys -> BootEntries] :
          /\ quota_usage = [i \in Keys |-> e[i].quota]
          /\ request_counts = [i \in Keys |-> e[i].requests]
          /\ forced = [i \in Keys |-> e[i].forced]
          /\ applied = [i \in Keys |-> e[i].quota]
          /\ napplied = [i \in Keys |-> e[i].requests]
    /\ last_reset_date = [i \in Keys |-> PtDate(now)]
    /\ last_reset_times = [i \in Keys |-> now]
    /\ zeroed = [i \in Keys |-> <<>>]
    /\ InitProcs

NextBoot ==
    \/ ConnectFails
    \/ ConnectSucceeds
    \/ ConnectRaises
    \/ ConnectGivesUp
    \/ constructed /\ Tick
    \/ constructed /\ OpIncrementUsage
    \/ constructed /\ OpRotateKey
    \/ constructed /\ OpMarkKeyQuotaExceeded
    \/ constructed /\ OpGetCurrentApiKey
    \/ constructed /\ OpAreAllKeysExhausted

SpecBoot == InitBoot /\ [][NextBoot]_vars


\* ---------------------------------------------- a stored index off range
\* Durable mode with any integer stored as current_key_index (the key is
\* shared with whatever else writes to the store), and direct calls.
StoredIndices == (0 - (MaxKeys + 1)) .. (MaxKeys + 1)

InitAnyIndex ==
    /\ constructed = TRUE
    /\ connected = TRUE
    /\ retries = 0
    /\ nkeys \in 1 .. MaxKeys
    /\ now = StartTime
    /\ current_key_index \in StoredIndices
    /\ \E e \in [Keys -> LedgerEntries] :
          /\ quota_usage = [i \in Keys |-> e[i].quota]
          /\ request_counts = [i \in Keys |-> e[i].requests]
          /\ forced = [i \in Keys |-> e[i].forced]
          /\ applied = [i \in Keys |-> IF e[i].forced THEN 0 ELSE e[i].quota]
          /\ napplied = [i \in Keys |-> e[i].requests]
    /\ last_reset_date = [i \in Keys |-> PtDate(now)]
    /\ last_reset_times = [i \in Keys |-> now]
    /\ zeroed = [i \in Keys |-> <<>>]
    /\ InitProcs

SpecIndex == InitAnyIndex /\ [][NextLedger]_vars


\* ------------------------------------------------- the status summary
\* get_key_status_summary (lines 362-394): the entries as they are stored,
\* read with no reset check; the stamp is the stored date in durable mode and
\* the time of the last reset in fallback mode.  The entry of index i of the
\* summary is <<quota_used, requests_made, last_reset>>.
KeyStatus(L, durable, i) ==
    <<L.quota[i], L.requests[i], IF durable THEN L.rdate[i] ELSE L.rtimes[i]>>

OpGetKeyStatusSummary ==
    \E i \in Keys :
        /\ UNCHANGED <<ledgerVars, historyVars>>
        /\ Called("get_key_status_summary", i, 0,
                  KeyStatus(Ledger, connected, i))

NextStatus ==
    \/ Tick
    \/ OpIncrementUsage
    \/ OpGetCurrentApiKey
    \/ OpMarkKeyQuotaExceeded
    \/ OpGetKeyStatusSummary

SpecStatus == InitLedgerCalls /\ [][NextStatus]_vars


\* ------------------------------------------------ dispatches, day on day
\* Dispatches are the only calls made and the upstream answers every attempt
\* with 200.  The caller keeps calling and the clock keeps running, so each
\* step that stays possible is taken in the end.
\* The caller of a refused dispatch comes back with another call.  A refused
\* dispatch has touched nothing, so it is not counted against the dispatches
\* of the behaviour.
CallAgain(p) ==
    /\ pc[p] = "done"
    /\ outcome[p] = "all_exhausted"
    /\ calls[p] = 0
    /\ pc' = [pc EXCEPT ![p] = "idle"]
    /\ outcome' = [outcome EXCEPT ![p] = "none"]
    /\ ndisp' = [ndisp EXCEPT ![p] = @ - 1]
    /\ UNCHANGED <<bootVars, connected, nkeys, now, ledgerVars, historyVars,
                   url, retry_count, key_index, loaded, calls, last, answers,
                   before, op, nops>>

\* The caller of a dispatch that returned a payload has it.
Served(p) == outcome[p] = "payload" /\ Finish(p)

NextDay ==
    \/ Tick
    \/ Start(1)
    \/ GetKey(1)
    \/ Resp200(1)
    \/ Served(1)
    \/ CallAgain(1)

SpecDay ==
    /\ Init
    /\ [][NextDay]_vars
    /\ WF_vars(Tick)
    /\ WF_vars(Start(1))
    /\ WF_vars(GetKey(1))
    /\ WF_vars(Resp200(1))
    /\ WF_vars(Served(1))
    /\ WF_vars(CallAgain(1))


\* ================================================================ claims
Counters == <<quota_usage, request_counts, current_key_index>>

\* The attempts still open to a dispatch: 0 once it has ended, and one less
\* after every step it takes.
Rank(p) ==
    CASE pc[p] = "done" -> 0
      [] pc[p] = "request" -> 2 * (max_retries - retry_count[p])
      [] pc[p] = "loop" -> 2 * (max_retries - retry_count[p]) + 1
      [] pc[p] = "adding" -> 1
      [] OTHER -> 2 * max_retries + 2

\* C1: a dispatch terminates and issues at most max_retries upstream calls,
\* whatever the upstream answers: the number of calls never passes
\* max_retries, and every step of a running dispatch lowers a rank that is
\* never negative.
C1_TerminatesWithinBudget ==
    /\ [](\A p \in Procs : calls[p] <= max_retries /\ Rank(p) >= 0)
    /\ [][\A p \in Procs :
            pc[p] \in {"loop", "request"}
            => \/ Rank(p)' < Rank(p)
               \/ UNCHANGED <<pc[p], retry_count[p], calls[p]>>]_vars

\* A dispatch that spent its whole budget on upstream calls.
C1_Witness == pc[1] = "done" /\ calls[1] = max_retries

\* Every credential is at or over the limit in the ledger.
AllAtLimit == \A i \in Keys : quota_usage[i] >= QUOTA_LIMIT

\* C2: a dispatch that starts with every credential exhausted ends at once
\* with the all-credentials-exhausted outcome, has issued no upstream call and
\* leaves the counters and the active index as they were.
C2_ExhaustedFailsAtOnce ==
    [][\A p \in Procs :
         (pc[p] = "idle" /\ pc'[p] # "idle" /\ AllAtLimit)
         => /\ pc'[p] = "done"
            /\ outcome'[p] = "all_exhausted"
            /\ calls'[p] = 0
            /\ UNCHANGED Counters]_vars

\* A single credential, marked exhausted, and a dispatch refused at once.
C2_Witness ==
    /\ nkeys = 1
    /\ forced[0]
    /\ quota_usage[0] = QUOTA_LIMIT
    /\ pc[1] = "done"
    /\ outcome[1] = "all_exhausted"
    /\ calls[1] = 0

\* The upstream of C3: quotaExceeded for credential 0, 200 for credential 1;
\* the dispatch met credential 0 first.
C3_Upstream(p) ==
    /\ nkeys = 2
    /\ <<0, "quota">> \in answers[p]
    /\ answers[p] \subseteq {<<0, "quota">>, <<1, "ok">>}

\* C3 as stated: with 2 credentials and that upstream, the dispatch ends with
\* the payload of credential 1 and credential 0 marked exhausted.
C3_Original ==
    \A p \in Procs :
        (pc[p] = "done" /\ C3_Upstream(p))
        => /\ outcome[p] = "payload"
           /\ <<1, "ok">> \in answers[p]
           /\ quota_usage[0] = QUOTA_LIMIT

\* C3 amended: with 2 credentials and credential 1 not exhausted in the
\* ledger, a quotaExceeded answer for credential 0 marks it exhausted, moves
\* the active index to 1 and retries; the retry reads credential 1, and with a
\* 200 for it the dispatch returns the payload.
C3_RotatesToSecondKey ==
    /\ [][\A p \in Procs :
            (/\ pc[p] = "request" /\ pc'[p] # "request" /\ last'[p] = "quota"
             /\ nkeys = 2 /\ key_index[p] = 0 /\ answers[p] = {}
             /\ quota_usage[1] < QUOTA_LIMIT)
            => /\ quota_usage'[0] = QUOTA_LIMIT
               /\ current_key_index' = 1
               /\ pc'[p] = "loop"
               /\ outcome'[p] = "none"]_vars
    /\ [](\A p \in Procs :
            (pc[p] = "request" /\ nkeys = 2 /\ answers[p] = {<<0, "quota">>})
            => key_index[p] = 1 /\ quota_usage[0] = QUOTA_LIMIT)
    /\ [](\A p \in Procs :
            (pc[p] = "done" /\ nkeys = 2
             /\ answers[p] = {<<0, "quota">>, <<1, "ok">>})
            => outcome[p] = "payload" /\ quota_usage[0] = QUOTA_LIMIT)

\* The scenario of C3 run to its end.
C3_Witness ==
    /\ nkeys = 2
    /\ pc[1] = "done"
    /\ answers[1] = {<<0, "quota">>, <<1, "ok">>}
    /\ outcome[1] = "payload"
    /\ key_index[1] = 1

\* The step of dispatch p that returns a payload.
Returns(p) == pc[p] = "request" /\ pc'[p] = "done" /\ outcome'[p] = "payload"

\* The cost table of the spec.
TableCost(u) == IF "search" \in u THEN 100 ELSE 1

\* C4 as stated: the returning step raises quota_used of the index read by the
\* cost of the target and its request_count by 1, and changes no other index.
C4_Original ==
    [][\A p \in Procs :
         Returns(p)
         => /\ quota_usage'[key_index[p]]
                 = quota_usage[key_index[p]] + TableCost(url'[p])
            /\ request_counts'[key_index[p]] = request_counts[key_index[p]] + 1
            /\ \A j \in Keys \ {key_index[p]} :
                   /\ quota_usage'[j] = quota_usage[j]
                   /\ request_counts'[j] = request_counts[j]]_vars

\* C4 amended: the growth is over the value left by the reset check that
\* increment runs first (0 when that check zeroed the index); the returning
\* step is the only one that raises a request count.
C4_OneIncrementOnReadKey ==
    [][/\ \A p \in Procs :
            Returns(p)
            => LET k == key_index[p]
                   fired == zeroed'[k] # zeroed[k]
               IN  /\ quota_usage'[k]
                        = (IF fired THEN 0 ELSE quota_usage[k]) + TableCost(url'[p])
                   /\ request_counts'[k]
                        = (IF fired THEN 0 ELSE request_counts[k]) + 1
                   /\ \A j \in Keys \ {k} :
                          /\ quota_usage'[j] = quota_usage[j]
                          /\ request_counts'[j] = request_counts[j]
       /\ (\A p \in Procs : ~Returns(p))
            => \A i \in Keys : request_counts'[i] <= request_counts[i]]_vars

\* A search answered 200 for a credential that stood at 9950: the dispatch
\* returned the payload and left 10050.
C4_Witness ==
    /\ pc[1] = "done"
    /\ outcome[1] = "payload"
    /\ url[1] = {"search"}
    /\ quota_usage[key_index[1]] = 10050

\* An attempt that failed without a 200 or a 403.
Transient(kind) == kind \in {"status", "transport"}

\* C5 as stated: after an attempt that ended in a transport failure or a
\* status other than 200 and 403, the counters and the active index are what
\* they were before the attempt (before it read the current credential).
C5_Original ==
    \A p \in Procs :
        (pc[p] \in {"loop", "done"} /\ Transient(last[p]))
        => before[p] = Counters

\* C5 amended: the counters and the index are what they were when the attempt
\* had read the current credential (in durable mode that read applies a
\* pending daily reset of the active index); the retry reads the same
\* credential again.
C5_FailedAttemptChargesNothing ==
    /\ [][\A p \in Procs :
            (pc[p] = "request" /\ pc'[p] # "request" /\ Transient(last'[p]))
            => UNCHANGED Counters]_vars
    /\ [][\A p \in Procs :
            (pc[p] = "loop" /\ pc'[p] = "request" /\ Transient(last[p]))
            => key_index'[p] = key_index[p]]_vars

\* A retry after a transport failure, reading a credential that has use on it.
C5_Witness ==
    /\ pc[1] = "request"
    /\ last[1] = "transport"
    /\ retry_count[1] = 1
    /\ quota_usage[key_index[1]] > 0

\* A step that is a direct call of one of the named manager methods.
Calls(names) == nops' = nops + 1 /\ op'.name \in names

\* Some credential has quota left.
SomeViable == \E i \in Keys : quota_usage[i] < QUOTA_LIMIT

\* C6: rotate_key never leaves the active index on a credential at or over
\* the limit when a credential under the limit exists; the same holds of the
\* rotation that mark_key_quota_exceeded runs after marking and of the one
\* increment_usage runs when it moves the index.
C6_AdvanceSkipsExhausted ==
    [][/\ (Calls({"rotate_key"}) /\ SomeViable)
            => quota_usage'[current_key_index'] < QUOTA_LIMIT
       /\ (/\ \/ Calls({"mark_key_quota_exceeded"})
              \/ Calls({"increment_usage"})
                   /\ current_key_index' # current_key_index
           /\ \E i \in Keys : quota_usage'[i] < QUOTA_LIMIT)
            => quota_usage'[current_key_index'] < QUOTA_LIMIT]_vars

\* Every credential after the active one exhausted: the rotation went round
\* to the only one left.
C6_Witness ==
    /\ nkeys = MaxKeys
    /\ op.name = "rotate_key"
    /\ nops = 1
    /\ current_key_index = 0
    /\ quota_usage[0] < QUOTA_LIMIT
    /\ \A i \in Keys \ {0} : quota_usage[i] >= QUOTA_LIMIT

\* C7: with no credential exhausted, every rotate_key call sets the active
\* index to (previous + 1) mod N, so successive calls run through 0 .. N-1 in
\* order and wrap from N-1 to 0.
C7_AdvanceCycles ==
    [][(Calls({"rotate_key"}) /\ \A i \in Keys : quota_usage[i] < QUOTA_LIMIT)
         => current_key_index' = (current_key_index + 1) % nkeys]_vars

\* Two calls in a row that end with the wrap from the last index to 0.
C7_Witness ==
    /\ nkeys = MaxKeys
    /\ \A i \in Keys : quota_usage[i] < QUOTA_LIMIT
    /\ nops = 2
    /\ op.name = "rotate_key"
    /\ op.ret = 0
    /\ current_key_index = 0

\* C8: for an index not forced to the limit since its last reset, quota_usage
\* is the sum of the costs of the increments made since that reset and
\* request_counts their number; increment_usage returns the quota of the index
\* as the increment left it.
C8_CountersAreSums ==
    /\ \A i \in Keys :
           /\ ~forced[i] => quota_usage[i] = applied[i]
           /\ request_counts[i] = napplied[i]
    /\ op.name = "increment_usage" => op.ret = quota_usage[op.arg]

\* Two increments of one index in a row, a search then another call, after a
\* reset.
C8_Witness ==
    /\ nops = 2
    /\ op.name = "increment_usage"
    /\ op.cost = DefaultCost
    /\ zeroed[op.arg] # <<>>
    /\ applied[op.arg] = SearchCost + DefaultCost
    /\ napplied[op.arg] = 2
    /\ op.ret = SearchCost + DefaultCost

\* Index i went through its reset check on today's date already.
CheckedToday(i) ==
    \/ PtDate(now) = PtDate(StartTime)
    \/ zeroed[i] # <<>> /\ zeroed[i][Len(zeroed[i])] = PtDate(now)

C9_Original ==
    [][\A i \in Keys :
         zeroed'[i] = zeroed[i]
         => /\ quota_usage'[i] >= quota_usage[i]
            /\ request_counts'[i] >= request_counts[i]]_vars

\* The daily reset of index i is pending: the index was last reset on a date
\* that is not today's.
PendingReset(i) ==
    IF connected THEN last_reset_date[i] # PtDate(now)
    ELSE PtDate(last_reset_times[i]) # PtDate(now)

\* The quota of index i once its pending reset is applied.
QuotaUnderToday(i) == IF PendingReset(i) THEN 0 ELSE quota_usage[i]

\* C11 as stated: are_all_keys_exhausted returns true exactly when, with the
\* pending daily reset of every index applied, every index is at or over the
\* limit; so it returns false on the first call of a new day.
C11_Original ==
    [][Calls({"are_all_keys_exhausted"})
         => (op'.ret <=> \A i \in Keys : QuotaUnderToday(i) >= QUOTA_LIMIT)]_vars

\* C12: three credentials, empty counters, index 0, the threshold fraction at
\* 0.8 on every check: 85 calls of increment_usage(0, 100) leave
\* quota_usage[0] = 8500 with the index on 0, and the first successful
\* dispatch after them reads credential 0, rotates, and leaves the index on 1.
C12_RotatesAtThreshold ==
    /\ []((connected /\ nops = 85 /\ pc[1] = "idle" /\ ndisp[1] = 0)
            => /\ quota_usage[0] = 8500
               /\ request_counts[0] = 85
               /\ current_key_index = 0)
    /\ [][(connected /\ ndisp[1] = 1 /\ Returns(1))
            => /\ key_index[1] = 0
               /\ current_key_index = 0
               /\ current_key_index' = 1]_vars

\* The dispatch after the 85 calls returned its payload for a search and left
\* the index on 1.
C12_Witness ==
    /\ connected
    /\ nkeys = 3
    /\ nops = 85
    /\ pc[1] = "done"
    /\ outcome[1] = "payload"
    /\ quota_usage[0] = 8600
    /\ request_counts[0] = 86
    /\ current_key_index = 1

\* Dispatch p takes the step that handles an answer of the given kind.
Handles(p, kind) == pc[p] = "request" /\ pc'[p] # "request" /\ last'[p] = kind

\* What the handling of a quotaExceeded 403 does (lines 71-83): the key read
\* is set to the limit and nothing else is counted; then the dispatch ends
\* with the all-exhausted outcome when every key is at the limit, and goes
\* round again with one retry counted when not.
HandledAsExhausted(p) ==
    /\ quota_usage'[key_index[p]] = QUOTA_LIMIT
    /\ \A j \in Keys \ {key_index[p]} : quota_usage'[j] = quota_usage[j]
    /\ request_counts' = request_counts
    /\ IF \A i \in Keys : quota_usage'[i] >= QUOTA_LIMIT
       THEN pc'[p] = "done" /\ outcome'[p] = "all_exhausted"
       ELSE pc'[p] = "loop" /\ retry_count'[p] = retry_count[p] + 1

\* C13 as stated: a 403 with keyInvalid or accessNotConfigured is handled as
\* one with quotaExceeded is: same mark, same rotation, same all-exhausted
\* re-check, same retry.
C13_Original ==
    [][\A p \in Procs : Handles(p, "invalid") => HandledAsExhausted(p)]_vars

\* The handling of the quotaExceeded 403 itself is the one described.
QuotaAnswerHandledAsExhausted ==
    [][\A p \in Procs : Handles(p, "quota") => HandledAsExhausted(p)]_vars

\* C14 as stated, for the reset points: in fallback mode as in durable mode,
\* the first increment_usage of an index on a new PT date zeroes its counters
\* before it adds, so that the call leaves its own cost and one request and
\* returns that cost; both modes then have the same counters and reset points
\* after the same calls and day boundaries.
C14_Original ==
    [][(Calls({"increment_usage"}) /\ ~CheckedToday(op'.arg))
         => /\ quota_usage'[op'.arg] = op'.cost
            /\ request_counts'[op'.arg] = 1
            /\ op'.ret = op'.cost]_vars

\* C15 as stated: when the concurrent dispatches have all returned a payload
\* obtained with the same credential i at their first attempt, quota_usage[i]
\* has grown by the sum of their costs and request_counts[i] by their number,
\* in durable and in fallback mode alike.
C15_Original ==
    \A i \in Keys :
        (\A p \in Procs : /\ pc[p] = "done"
                          /\ outcome[p] = "payload"
                          /\ answers[p] = {<<i, "ok">>})
        => /\ quota_usage[i] = applied[i]
           /\ request_counts[i] = napplied[i]

\* C16: with store commands failing during a dispatch in durable mode, a 200
\* from the upstream still ends the dispatch with the payload; the dispatch
\* is refused as all-exhausted only when every stored quota is at the limit,
\* never because a read failed (a failed read gives the default "0");
\* increment_usage returns 0 when its INCRBY of the quota failed, and the
\* stored quota of its index when it did not.
C16_StoreFailuresAbsorbed ==
    /\ (pc[1] = "done" /\ last[1] = "ok") => outcome[1] = "payload"
    /\ outcome[1] = "all_exhausted" => AllAtLimit
    /\ op.name = "increment_usage"
         => op.ret = (IF op.failed = {} THEN quota_usage[op.arg] ELSE 0)

\* A dispatch that returned its payload although the INCRBY of the quota
\* failed: increment_usage returned 0 and the search was not counted.
C16_Witness ==
    /\ pc[1] = "done"
    /\ outcome[1] = "payload"
    /\ url[1] = {"search"}
    /\ op.name = "increment_usage"
    /\ op.failed = {"incr_quota"}
    /\ op.ret = 0
    /\ quota_usage[op.arg] = 9950

\* What C17 describes for a failed attempt: one retry is counted; the dispatch
\* goes round again while budget remains, and ends surfacing the upstream
\* status and body only when the budget is spent.
CountedAndRetried(p) ==
    /\ retry_count'[p] = retry_count[p] + 1
    /\ IF retry_count[p] + 1 < max_retries
       THEN pc'[p] = "loop" /\ outcome'[p] = outcome[p]
       ELSE pc'[p] = "done" /\ outcome'[p] \in {"upstream_error", "forbidden"}

\* C17 as stated: every non-2xx answer that is not a quota or invalid-key
\* 403, a 403 with any other reason included, counts one retry and is retried
\* while budget remains; the dispatch fails, with the upstream status and
\* body, only once the budget is spent.
C17_Original ==
    [][\A p \in Procs :
          (Handles(p, "status") \/ Handles(p, "forbidden"))
             => CountedAndRetried(p)]_vars

\* The statuses that are neither 200 nor 403 are handled so (lines 95-102).
StatusAnswerCountedAndRetried ==
    [][\A p \in Procs : Handles(p, "status") => CountedAndRetried(p)]_vars

\* The answers a dispatch has had were all transport failures.
OnlyTransportFailures(p) ==
    /\ answers[p] # {}
    /\ \A a \in answers[p] : a[2] = "transport"

\* C18: after a transport failure the dispatch is back at the head of the
\* loop while retry budget remains and has failed with the network error once
\* it is spent; a dispatch that has ended and whose every attempt was a
\* transport failure has made exactly max_retries upstream calls and ended
\* with the network error, not with the generic or the all-exhausted outcome.
C18_TransportFailureRetried ==
    \A p \in Procs :
       /\ (last[p] = "transport" /\ pc[p] \in {"loop", "done"})
            => IF retry_count[p] < max_retries
               THEN pc[p] = "loop" /\ outcome[p] = "none"
               ELSE pc[p] = "done" /\ outcome[p] = "network_error"
       /\ (pc[p] = "done" /\ OnlyTransportFailures(p))
            => outcome[p] = "network_error" /\ calls[p] = max_retries

\* A dispatch that failed with the network error after max_retries attempts,
\* each a transport failure.
C18_Witness ==
    /\ pc[1] = "done"
    /\ OnlyTransportFailures(1)
    /\ outcome[1] = "network_error"
    /\ calls[1] = max_retries
    /\ retry_count[1] = max_retries

\* The two places where a dispatch sees are_all_keys_exhausted() true: the
\* entry check (lines 31-36) and the re-check after the mark of a quota 403
\* (lines 74-80).
ObservesAllExhausted(p) ==
    \/ pc[p] = "idle" /\ pc'[p] # "idle" /\ AllAtLimit
    \/ Handles(p, "quota") /\ AllAtLimit'

\* The step with which a dispatch ends.
EndsNow(p) == pc[p] # "done" /\ pc'[p] = "done"

\* C19: a dispatch ends with the all-exhausted outcome on exactly the steps
\* where it sees every key exhausted, at its entry check or after the mark of
\* a quota 403; having ended so it calls the upstream no more; and a dispatch
\* that ends with its retry budget spent and without that observation ends
\* with the generic, the network-error or the upstream-error outcome.
C19_AllExhaustedOnlyWhenObserved ==
    [][\A p \in Procs :
         /\ (EndsNow(p) /\ outcome'[p] = "all_exhausted")
               <=> ObservesAllExhausted(p)
         /\ (pc[p] = "done" /\ outcome[p] = "all_exhausted")
               => calls'[p] \in {calls[p], 0} /\ pc'[p] \in {"done", "idle"}
         /\ (EndsNow(p) /\ retry_count'[p] >= max_retries
                        /\ ~ObservesAllExhausted(p))
               => outcome'[p] \in {"retries_exhausted", "network_error",
                                   "upstream_error"}]_vars

\* A dispatch whose third attempt was an invalid-key 403 on the last key with
\* quota left: every key is at the limit, the budget is spent, and the outcome
\* is the generic one.
C19_Witness ==
    /\ pc[1] = "done"
    /\ outcome[1] = "retries_exhausted"
    /\ retry_count[1] = max_retries
    /\ last[1] = "invalid"
    /\ AllAtLimit

\* A dispatch ended as all-exhausted by the re-check after a quota 403.
AllExhaustedAfterQuotaAnswer ==
    /\ pc[1] = "done"
    /\ outcome[1] = "all_exhausted"
    /\ last[1] = "quota"
    /\ calls[1] > 0

\* C20: when rotate_key finds every key at or over the limit, the scan having
\* gone once round all N of them, the active index is still written, and to
\* exactly (previous + 1) mod N, which is also what the call returns; so for
\* the rotation mark_key_quota_exceeded runs once its mark has left no key
\* with quota.
C20_AdvancesWhenNoneViable ==
    [][/\ (Calls({"rotate_key"}) /\ AllAtLimit)
            => /\ current_key_index' = (current_key_index + 1) % nkeys
               /\ op'.ret = (current_key_index + 1) % nkeys
               /\ UNCHANGED <<quota_usage, request_counts>>
       /\ (Calls({"mark_key_quota_exceeded"}) /\ AllAtLimit')
            => current_key_index' = (current_key_index + 1) % nkeys]_vars

\* Every key exhausted, and one rotate_key call that moved the index from 0
\* to 1.
C20_Witness ==
    /\ nkeys = MaxKeys
    /\ AllAtLimit
    /\ nops = 1
    /\ op.name = "rotate_key"
    /\ op.ret = 1
    /\ current_key_index = 1

\* C21: _connect_with_retry makes at most ConnectMaxRetries attempts; when
\* they have all failed __init__ returns in fallback mode with the active
\* index 0 and every counter 0, whatever the store held; connected is set
\* only by an attempt that succeeded; and once __init__ has returned no call
\* of the manager changes connected.
C21_ModeFixedAtConstruction ==
    [][/\ retries' <= ConnectMaxRetries
       /\ (~constructed /\ retries >= ConnectMaxRetries)
            => constructed' /\ ~connected'
       /\ (~constructed /\ constructed' /\ ~connected')
            => /\ current_key_index' = 0
               /\ \A i \in Keys : quota_usage'[i] = 0 /\ request_counts'[i] = 0
       /\ (~constructed /\ connected') => retries < ConnectMaxRetries
       /\ constructed => constructed' /\ connected' = connected]_vars

\* Every attempt failed, the store held used quota, and a later call found
\* the manager in fallback mode with the counters begun at 0.
C21_Witness ==
    /\ constructed
    /\ retries = ConnectMaxRetries
    /\ ~connected
    /\ nops = 1
    /\ op.name = "increment_usage"
    /\ op.ret = op.cost
    /\ quota_usage[op.arg] = op.cost

\* C22 as stated: whatever integer is stored as the active index,
\* get_current_api_key returns an index in 0 .. N-1, and a stored value
\* outside that range is repaired by writing 0 to the store.
C22_Original ==
    [][Calls({"get_current_api_key"})
         => /\ op'.ret \in Keys
            /\ current_key_index \notin Keys => current_key_index' = 0]_vars

\* For a stored index at or over N the call does so (lines 154-156).
IndexAtOrOverLenRepaired ==
    [][(Calls({"get_current_api_key"}) /\ current_key_index >= nkeys)
         => op'.ret = 0 /\ current_key_index' = 0]_vars

\* C23: mark_key_quota_exceeded(i) leaves the quota of i at exactly the
\* limit, whatever it was and whether or not a reset of i is pending; the
\* request count and the reset stamps of i, and the counters of every other
\* index, stay as they were; the index is then rotated once, from the index
\* before the call over the quotas as marked; and right after the call i is
\* exhausted for are_all_keys_exhausted and for a further rotate_key, which
\* does not choose i while another key has quota left.
C23_MarkSetsLimitThenAdvances ==
    [][Calls({"mark_key_quota_exceeded"})
         => /\ quota_usage'[op'.arg] = QUOTA_LIMIT
            /\ \A j \in Keys \ {op'.arg} : quota_usage'[j] = quota_usage[j]
            /\ UNCHANGED <<request_counts, last_reset_date, last_reset_times>>
            /\ current_key_index'
                 = ScanNext(quota_usage', nkeys,
                            (current_key_index + 1) % nkeys, 0)
            /\ op'.ret = current_key_index'
            /\ AreAllKeysExhausted(Ledger', nkeys)
                 <=> \A j \in Keys \ {op'.arg} : quota_usage[j] >= QUOTA_LIMIT
            /\ (\E j \in Keys : quota_usage'[j] < QUOTA_LIMIT)
                 => /\ current_key_index' # op'.arg
                    /\ RotateKey(Ledger', nkeys).idx # op'.arg]_vars

\* A key whose quota had run over the limit, marked on a day when its reset
\* was still pending: the quota is the limit, the stamp is still yesterday's.
C23_Witness ==
    /\ connected
    /\ nkeys = MaxKeys
    /\ nops = 2
    /\ op.name = "mark_key_quota_exceeded"
    /\ op.arg = 0
    /\ quota_usage[0] = QUOTA_LIMIT
    /\ applied[0] > QUOTA_LIMIT
    /\ request_counts[0] = 150
    /\ last_reset_date[0] # PtDate(now)
    /\ current_key_index = 1

\* The counters and the stamp of index i after a step are those of a reset
\* made today, plus what the step added.
ResetToday(i, quota, requests) ==
    /\ quota_usage'[i] = quota
    /\ request_counts'[i] = requests
    /\ IF connected THEN last_reset_date'[i] = PtDate(now)
       ELSE PtDate(last_reset_times'[i]) = PtDate(now)

\* C24 as stated: every access to the entry of index i runs the reset check
\* first, so that on the first access after a day boundary a status read
\* returns (0, 0, today) and leaves the entry so, get_current_api_key leaves
\* the entry of the active index so, and increment_usage leaves its own cost
\* and one request.
C24_Original ==
    [][/\ (Calls({"get_key_status_summary"}) /\ PendingReset(op'.arg))
            => /\ op'.ret[1] = 0
               /\ op'.ret[2] = 0
               /\ op'.ret[3] = PtDate(now)
               /\ ResetToday(op'.arg, 0, 0)
       /\ (Calls({"get_current_api_key"}) /\ PendingReset(current_key_index))
            => ResetToday(current_key_index, 0, 0)
       /\ (Calls({"increment_usage"}) /\ PendingReset(op'.arg))
            => ResetToday(op'.arg, op'.cost, 1)]_vars

\* C24 as stated, for the status read alone.
StatusReadResetsFirst ==
    [][(Calls({"get_key_status_summary"}) /\ PendingReset(op'.arg))
         => /\ op'.ret[1] = 0
            /\ op'.ret[2] = 0
            /\ ResetToday(op'.arg, 0, 0)]_vars

\* In durable mode get_current_api_key and increment_usage do run the reset
\* check first (lines 159 and 236).
DurableAccessResetsFirst ==
    [][connected =>
         /\ (Calls({"get_current_api_key"}) /\ PendingReset(current_key_index))
              => ResetToday(current_key_index, 0, 0)
         /\ (Calls({"increment_usage"}) /\ PendingReset(op'.arg))
              => ResetToday(op'.arg, op'.cost, 1)]_vars

\* C25 as stated: once every key is at the limit and the day boundary has
\* been crossed since (the reset of every key is pending), with the caller
\* still to make a dispatch, a dispatch to which the upstream answers 200
\* returns its payload in the end.
C25_Original ==
    (/\ AllAtLimit
     /\ \A i \in Keys : PendingReset(i)
     /\ pc[1] = "idle"
     /\ ndisp[1] < MaxDispatches) ~> (outcome[1] = "payload")

\* The dispatch made on the new day is refused at its entry check, with the
\* quotas and the stamps left as they were.
RefusedOnNewDay ==
    [][(pc[1] = "idle" /\ pc'[1] # "idle" /\ AllAtLimit
          /\ \A i \in Keys : PendingReset(i))
         => /\ outcome'[1] = "all_exhausted"
            /\ UNCHANGED <<quota_usage, last_reset_date, last_reset_times>>]_vars

\* Both dispatches read key i when it was the active one, got a 200 on their
\* only attempt, and have returned; the quota of i was already over every
\* threshold a draw can give, so each of the two increments rotated.
BothCrossedOn(i) ==
    \A p \in Procs :
        /\ pc[p] = "done"
        /\ outcome[p] = "payload"
        /\ answers[p] = {<<i, "ok">>}
        /\ before[p][3] = i
        /\ before[p][1][i] * 100 >= QUOTA_LIMIT * 85

\* C26 as stated: when two concurrent dispatches read the same key i and the
\* increment of each crosses the rotation threshold, the index ends on the
\* first key after i with quota left: it has moved once past i, without
\* skipping such a key and without coming back to i.
C26_Original ==
    \A i \in Keys :
        BothCrossedOn(i)
        => /\ current_key_index = ScanNext(quota_usage, nkeys, (i + 1) % nkeys, 0)
           /\ nkeys > 1 => current_key_index # i

\* What the two rotations do: each starts from the index the store holds at
\* that moment, so with two keys, both with quota left, the index is back on i.
BackOnSameKey ==
    /\ nkeys = 2
    /\ BothCrossedOn(0)
    /\ \A j \in Keys : quota_usage[j] < QUOTA_LIMIT
    /\ current_key_index = 0

\* C27 as stated: in durable mode the counters of an index whose stored reset
\* date is today's are not zeroed, whatever store command fails in the step:
\* no reset is recorded for it and neither counter goes down.
C27_Original ==
    [][\A i \in Keys :
         (connected /\ last_reset_date[i] = PtDate(now))
         => /\ zeroed'[i] = zeroed[i]
            /\ quota_usage'[i] >= quota_usage[i]
            /\ request_counts'[i] >= request_counts[i]]_vars

\* A dispatch read key 0, whose date was today's, and left its quota at 0 in
\* the middle of the day.
ZeroedMidDay ==
    /\ pc[1] = "request"
    /\ key_index[1] = 0
    /\ last_reset_date[0] = PtDate(now)
    /\ zeroed[0] = <<PtDate(now)>>
    /\ quota_usage[0] = 0

\* The step on which the answer to an upstream call of dispatch p arrives; the
\* call was made with the key of index key_index[p].
CallAnswered(p) == pc[p] = "request" /\ calls'[p] = calls[p] + 1

\* Key i was marked by dispatch p after a 403 on an earlier attempt.
MarkedBy(p, i) == <<i, "quota">> \in answers[p] \/ <<i, "invalid">> \in answers[p]

\* C28 as stated: a dispatch makes no upstream call with a key it has marked
\* exhausted after a 403 (quota or invalid-key reason) on an earlier attempt.
C28_Original ==
    [][\A p \in Procs : CallAnswered(p) => ~MarkedBy(p, key_index[p])]_vars

\* While its 403s all carry a quota reason a dispatch does not call again
\* with a key it marked: the re-check of lines 77-80 ends it when no other
\* key is left.
QuotaMarkedKeyNotReused ==
    [][\A p \in Procs :
         (CallAnswered(p) /\ \A a \in answers[p] : a[2] # "invalid")
         => ~MarkedBy(p, key_index[p])]_vars

====
